---- MODULE Spec2Model ----
(***************************************************************************)
(* Model of x13s-camera-led (src/src/main.rs): a PipeWire registry monitor *)
(* that latches the front camera node and mirrors its state onto the       *)
(* camera indicator LED, with a desktop notification as fallback.          *)
(*                                                                         *)
(* One action per callback registered in monitor(); every callback runs to *)
(* completion on the single main-loop thread.                              *)
(***************************************************************************)
EXTENDS Integers, Sequences, FiniteSets, TLC

(* ---------------------------------------------------------------- bounds *)
\* Registry (global) ids handed out by the server are 1..MaxGlobalId; 0 is the core.
MaxGlobalId == 2
\* Client-side proxy ids of bound nodes are 1..MaxProxyId.
MaxProxyId == 2

\* The specification of the node callbacks alone has the globals 1..MaxInfoGlobalId.
MaxInfoGlobalId == 1

\* The specification of the Nodes operations alone stops adding listeners under
\* a proxy id once its list has MaxListeners of them.
MaxListeners == 3

GlobalIds == 1..MaxGlobalId
InfoGlobalIds == 1..MaxInfoGlobalId
ProxyIds == 1..MaxProxyId

(* ------------------------------------------------------------- constants *)
X13S_CAMERA_PRODUCT_NAME == "ov5675"
X13S_LED_BRIGHTNESS_ON == 1
X13S_LED_BRIGHTNESS_OFF == 0

(* --------------------------------------------------------------- options *)
\* Option<T>: None is the empty tuple, Some(v) the one-element tuple.
None == <<>>
Some(v) == <<v>>

(* ---------------------------------------------------------------- inputs *)
\* ObjectType of a registry global: Node and one representative other kind.
ObjectTypes == {"Node", "Device"}

\* NodeState as delivered by info.state(); Error carries a message.
NodeStates ==
    {[tag |-> t, err |-> ""] : t \in {"Creating", "Suspended", "Idle", "Running"}}
        \cup {[tag |-> "Error", err |-> "boom"]}

\* The three property keys the callback reads, and per key the target value and
\* one other value; a key may also be missing from the map.
PropKeys == {"media.role", "api.libcamera.location", "device.product.name"}
PropValues(k) ==
    CASE k = "media.role" -> {"Camera", "Music"}
      [] k = "api.libcamera.location" -> {"front", "rear"}
      [] k = "device.product.name" -> {X13S_CAMERA_PRODUCT_NAME, "imx219"}

\* The map of the front camera, and the one of end-to-end scenario D (rear).
TargetProps ==
    [k \in PropKeys |->
        CASE k = "media.role" -> "Camera"
          [] k = "api.libcamera.location" -> "front"
          [] k = "device.product.name" -> X13S_CAMERA_PRODUCT_NAME]
RearProps == [TargetProps EXCEPT !["api.libcamera.location"] = "rear"]

\* The maps one step away from the front camera's: one key missing, or one key
\* with its other value; with the front camera's own map and the empty map.
Without(m, k) == [x \in DOMAIN m \ {k} |-> m[x]]
PropMaps ==
    {TargetProps, <<>>}
        \cup {Without(TargetProps, k) : k \in PropKeys}
        \cup UNION {{[TargetProps EXCEPT ![k] = v] : v \in PropValues(k)} :
                       k \in PropKeys}

\* info.props(): absent, or a property map.
PropsInputs == {None} \cup {Some(m) : m \in PropMaps}

\* The inputs of the whole-system specification: a matching map, a map that
\* does not match, no map; the running state and one other state.
SystemProps == {Some(TargetProps), Some(RearProps), None}
SystemStates == {st \in NodeStates : st.tag \in {"Running", "Idle"}}

\* Messages of core error events and the signals with a handler.
ErrorMessages == {"connection lost"}
ErrorIds == {0} \cup ProxyIds
Signals == {"SIGINT", "SIGTERM"}

(* ----------------------------------------------------------------- state *)
VARIABLES
    globals,      \* server side: live registry globals, id -> ObjectType
    gone,         \* server side: bound proxies whose global was removed
    nodes,        \* Nodes { nodes_t, listeners }, both keyed by proxy id
    camera_id,    \* Rc<RefCell<Option<u32>>>: the latch
    result,       \* Rc<RefCell<anyhow::Result<()>>>
    quit,         \* main_loop.quit() has been called
    pc,           \* "run" inside main_loop.run(), "returned" after monitor returns
    exit,         \* Option: what monitor() returned
    CONNECTION,   \* static OnceLock<zbus::Result<Connection>>
    led,          \* Option: the brightness last set on white:camera-indicator by
                  \* a successful SetBrightness call; None while untouched
    ev,           \* the callback that ran last, with its arguments and the
                  \* latch it found (history)
    cleared,      \* Option: the identity whose removal last cleared the latch
                  \* (history)
    fatal,        \* a core error with id 0 was delivered (history)
    result_rc,    \* strong count of the Rc holding `result`
    out           \* the control-channel calls made by that callback

vars == <<globals, gone, nodes, camera_id, result, quit, pc, exit,
          CONNECTION, led, ev, cleared, fatal, result_rc, out>>

Ok == [ok |-> TRUE, msg |-> ""]
Err(m) == [ok |-> FALSE, msg |-> m]

NoCalls == [set |-> <<>>, notify |-> <<>>]

(* ----------------------------------------------------------------- Nodes *)
NodesNew == [nodes_t |-> <<>>, listeners |-> <<>>]

\* HashMap::insert / remove and entry().or_default() on maps kept as functions.
MapInsert(m, k, v) == [x \in DOMAIN m \cup {k} |-> IF x = k THEN v ELSE m[x]]
MapRemove(m, k) == [x \in DOMAIN m \ {k} |-> m[x]]
EntryOrDefault(m, k) == IF k \in DOMAIN m THEN m[k] ELSE <<>>

\* A bound Node proxy: its client-side proxy id and the global it is bound to.
NodeProxy(p, g) == [proxy_id |-> p, id |-> g]
NodeListener(p) == [type |-> "NodeListener", proxy_id |-> p]
ProxyListener(p) == [type |-> "ProxyListener", proxy_id |-> p]

add_node_t(n, node_t, listener) ==
    LET proxy_id == node_t.proxy_id
    IN  [nodes_t |-> MapInsert(n.nodes_t, proxy_id, node_t),
         listeners |-> MapInsert(n.listeners, proxy_id,
                           Append(EntryOrDefault(n.listeners, proxy_id), listener))]

add_proxy_listener(n, proxy_id, listener) ==
    [nodes_t |-> n.nodes_t,
     listeners |-> MapInsert(n.listeners, proxy_id,
                       Append(EntryOrDefault(n.listeners, proxy_id), listener))]

\* Mutant: remove drops the object reference and keeps the listeners.
removeNodeOnly(n, proxy_id) ==
    [nodes_t |-> MapRemove(n.nodes_t, proxy_id),
     listeners |-> n.listeners]

remove(n, proxy_id) ==
    [nodes_t |-> MapRemove(n.nodes_t, proxy_id),
     listeners |-> MapRemove(n.listeners, proxy_id)]

\* A listener of the given type is registered (stored, hence not dropped) for p.
HasListener(n, p, type) ==
    /\ p \in DOMAIN n.listeners
    /\ \E i \in 1..Len(n.listeners[p]) :
           n.listeners[p][i] = [type |-> type, proxy_id |-> p]

(* --------------------------------------------------- node info callback *)
\* props.get(key): Some(value) when the key is in the map, None otherwise.
Get(m, k) == IF k \in DOMAIN m THEN Some(m[k]) ELSE None

\* Mutant: the placement key is not compared.
IsFrontCameraAnyLocation(props) ==
    /\ props # None
    /\ LET m == props[1]
       IN  /\ Get(m, "media.role") = Some("Camera")
           /\ Get(m, "device.product.name") = Some(X13S_CAMERA_PRODUCT_NAME)

\* The identification predicate on info.props().
IsFrontCamera(props) ==
    /\ props # None
    /\ LET m == props[1]
       IN  /\ Get(m, "media.role") = Some("Camera")
           /\ Get(m, "api.libcamera.location") = Some("front")
           /\ Get(m, "device.product.name") = Some(X13S_CAMERA_PRODUCT_NAME)

\* Mutant: a one-shot latch, taken only while nothing is latched.
IdentifyOnce(cam, props, id) ==
    IF cam = None /\ IsFrontCamera(props) THEN Some(id) ELSE cam

\* Mutant: the identification step never latches.
IdentifyNever(cam, props, id) == cam

\* camera_id after the identification step of an info event of node `id`.
Identify(cam, props, id) == IF IsFrontCamera(props) THEN Some(id) ELSE cam

\* Mutant: every info event is forwarded, whatever the latch holds.
IsMyCameraAlways(cam, id) == TRUE

\* Whether the event of node `id` is forwarded, given the latch after Identify.
IsMyCamera(cam, id) == cam = Some(id)

\* Mutant: the idle state lights the LED too.
LedBrightnessIdleOn(state) ==
    IF state.tag \in {"Running", "Idle"}
    THEN X13S_LED_BRIGHTNESS_ON ELSE X13S_LED_BRIGHTNESS_OFF

LedBrightness(state) ==
    IF state.tag = "Running" THEN X13S_LED_BRIGHTNESS_ON ELSE X13S_LED_BRIGHTNESS_OFF

\* format!("{:?}", info.state()): the derived Debug of NodeState.
DebugFmt(state) ==
    IF state.tag = "Error" THEN "Error(\"" \o state.err \o "\")" ELSE state.tag

\* Mutant: get_or_init runs Connection::system again when the cell holds an
\* error.
AttemptsUnlessOk(conn) == conn # "ok"

\* OnceLock::get_or_init runs its closure only when the cell is still empty.
Attempts(conn) == conn = "uninit"

\* CONNECTION after get_or_init(Connection::system): initialised on first use
\* only, and the outcome (a connection or the error) is what stays cached.
GetOrInit(conn, connects) ==
    IF Attempts(conn) THEN (IF connects THEN "ok" ELSE "err") ELSE conn

\* Connection::system can succeed or fail when it runs; when it does not run
\* the cached outcome stands.
ConnectOutcomes(conn) == IF Attempts(conn) THEN BOOLEAN ELSE {conn = "ok"}

\* call_method runs only on a connection; notification only after a failed set
\* (a call that is not made has no outcome: FALSE stands for it).
CallOutcomes(connected) == IF connected THEN BOOLEAN ELSE {FALSE}
NotifyOutcomes(set_ok) == IF set_ok THEN {FALSE} ELSE BOOLEAN

\* set_led_brightness succeeds when the cached connection is good and the
\* SetBrightness method call returns without error.
SetLedOk(conn, connects, call_ok) == GetOrInit(conn, connects) = "ok" /\ call_ok

\* Mutant: the notification is posted after a successful set as well.
NotificationsAlways(set_ok, state, note_ok) ==
    <<[summary |-> "Camera state changed", body |-> DebugFmt(state), ok |-> note_ok]>>

\* The notifications attempted after set_led_brightness returned set_ok.
Notifications(set_ok, state, note_ok) ==
    IF set_ok THEN <<>>
    ELSE <<[summary |-> "Camera state changed", body |-> DebugFmt(state),
            ok |-> note_ok]>>

\* Mutant: a failed set_led_brightness is propagated and ends the monitor.
ReconcileOrAbort(state, connects, call_ok, note_ok) ==
    LET brightness == LedBrightness(state)
        set_ok == SetLedOk(CONNECTION, connects, call_ok)
    IN  /\ CONNECTION' = GetOrInit(CONNECTION, connects)
        /\ led' = IF set_ok THEN Some(brightness) ELSE led
        /\ out' = [set |-> <<[level |-> brightness, ok |-> set_ok,
                              connect |-> Attempts(CONNECTION)]>>,
                   notify |-> Notifications(set_ok, state, note_ok)]
        /\ quit' = (quit \/ ~set_ok)
        /\ result' = IF set_ok THEN result ELSE Err("failed to set LED brightness")

\* The branch of the info callback taken for the latched node: one
\* set_led_brightness call, and the notification fallback when it fails.
Reconcile(state, connects, call_ok, note_ok) ==
    LET brightness == LedBrightness(state)
        set_ok == SetLedOk(CONNECTION, connects, call_ok)
    IN  /\ CONNECTION' = GetOrInit(CONNECTION, connects)
        /\ led' = IF set_ok THEN Some(brightness) ELSE led
        /\ out' = [set |-> <<[level |-> brightness, ok |-> set_ok,
                              connect |-> Attempts(CONNECTION)]>>,
                   notify |-> Notifications(set_ok, state, note_ok)]
        /\ UNCHANGED <<quit, result>>

\* info callback of the node bound to proxy p; info.id() is the node's global id.
NodeInfo(p, props, state) ==
    /\ pc = "run"
    /\ p \in DOMAIN nodes.nodes_t
    /\ HasListener(nodes, p, "NodeListener")
    /\ LET id == nodes.nodes_t[p].id
           cam == Identify(camera_id, props, id)
       IN  /\ camera_id' = cam
           /\ ev' = [kind |-> "info", proxy_id |-> p, id |-> id,
                     props |-> props, state |-> state, latch |-> camera_id]
           /\ IF IsMyCamera(cam, id)
              THEN \E connects \in ConnectOutcomes(CONNECTION) :
                   \E call_ok \in CallOutcomes(connects) :
                   \E note_ok \in NotifyOutcomes(connects /\ call_ok) :
                       Reconcile(state, connects, call_ok, note_ok)
              ELSE /\ out' = NoCalls
                   /\ UNCHANGED <<CONNECTION, led, quit, result>>
    /\ UNCHANGED <<cleared, fatal, result_rc, globals, gone, nodes, pc, exit>>

(* --------------------------------------------------- registry callbacks *)
\* registry.bind(obj): the client library picks a proxy id that is not in use.
FreeProxyIds == ProxyIds \ DOMAIN nodes.nodes_t

\* Mutant: the global callback binds and tracks objects of every type.
OnGlobalAnyType(n, type, p, g) ==
    add_proxy_listener(add_node_t(n, NodeProxy(p, g), NodeListener(p)),
                       p, ProxyListener(p))

\* Mutant: the global callback stores the node and its info listener and drops
\* the removal listener.
OnGlobalNoProxyListener(n, type, p, g) ==
    IF type = "Node" THEN add_node_t(n, NodeProxy(p, g), NodeListener(p)) ELSE n

\* What the global callback does to Nodes for an object of the given type.
OnGlobal(n, type, p, g) ==
    IF type = "Node"
    THEN add_proxy_listener(add_node_t(n, NodeProxy(p, g), NodeListener(p)),
                            p, ProxyListener(p))
    ELSE n

Global(g, type) ==
    /\ pc = "run"
    /\ g \notin DOMAIN globals
    /\ IF type = "Node"
       THEN \E p \in FreeProxyIds : nodes' = OnGlobal(nodes, type, p, g)
       ELSE nodes' = OnGlobal(nodes, type, 0, g)
    /\ ev' = [kind |-> "global", id |-> g, type |-> type]
    /\ globals' = MapInsert(globals, g, type)
    /\ out' = NoCalls
    /\ UNCHANGED <<cleared, fatal, result_rc, gone, camera_id, result, quit,
                   pc, exit, CONNECTION, led>>

\* Mutant: the latch is never cleared.
OnGlobalRemoveKeep(cam, id) == cam

\* Mutant: every removal clears the latch.
OnGlobalRemoveAny(cam, id) == None

\* camera_id after the global_remove callback for id.
OnGlobalRemove(cam, id) == IF cam = Some(id) THEN None ELSE cam

GlobalRemove(g) ==
    /\ pc = "run"
    /\ g \in DOMAIN globals
    /\ globals' = MapRemove(globals, g)
    /\ gone' = gone \cup {p \in DOMAIN nodes.nodes_t : nodes.nodes_t[p].id = g}
    /\ camera_id' = OnGlobalRemove(camera_id, g)
    /\ cleared' = IF camera_id = Some(g) THEN Some(g) ELSE cleared
    /\ ev' = [kind |-> "global_remove", id |-> g, latch |-> camera_id]
    /\ out' = NoCalls
    /\ UNCHANGED <<fatal, result_rc, nodes, result, quit, pc, exit,
                   CONNECTION, led>>

\* removed callback of the proxy p, sent once the bound global is gone.
ProxyRemoved(p) ==
    /\ pc = "run"
    /\ p \in gone
    /\ HasListener(nodes, p, "ProxyListener")
    /\ nodes' = remove(nodes, p)
    /\ gone' = gone \ {p}
    /\ ev' = [kind |-> "removed", proxy_id |-> p]
    /\ out' = NoCalls
    /\ UNCHANGED <<cleared, fatal, result_rc, globals, camera_id, result,
                   quit, pc, exit, CONNECTION, led>>

(* ------------------------------------------------ core error and signals *)
\* Mutant: every core error is fatal, whatever its id.
OnCoreErrorAnyId(q, res, id, message) ==
    [quit |-> TRUE, result |-> Err("pipewire error: " \o message)]

\* quit flag and result after the core error callback.
OnCoreError(q, res, id, message) ==
    IF id = 0
    THEN [quit |-> TRUE, result |-> Err("pipewire error: " \o message)]
    ELSE [quit |-> q, result |-> res]

\* Mutant: the error callback keeps the strong handle it upgraded.
HandlesAfterErrorKept(rc, id) == IF id = 0 THEN rc + 1 ELSE rc

\* Strong handles to the result cell after the error callback: under id == 0
\* result_weak.upgrade() makes one for the scope of the if-let, and the end of
\* that scope drops it.
HandlesAfterError(rc, id) == IF id = 0 THEN (rc + 1) - 1 ELSE rc

CoreError(id, message) ==
    /\ pc = "run"
    /\ quit' = OnCoreError(quit, result, id, message).quit
    /\ result' = OnCoreError(quit, result, id, message).result
    /\ fatal' = (fatal \/ id = 0)
    /\ ev' = [kind |-> "error", id |-> id, message |-> message]
    /\ out' = NoCalls
    /\ result_rc' = HandlesAfterError(result_rc, id)
    /\ UNCHANGED <<cleared, globals, gone, nodes, camera_id, pc, exit,
                   CONNECTION, led>>

SignalHandler(sig) ==
    /\ pc = "run"
    /\ quit' = TRUE
    /\ ev' = [kind |-> "signal", sig |-> sig]
    /\ out' = NoCalls
    /\ UNCHANGED <<cleared, fatal, result_rc, globals, gone, nodes, camera_id, result, pc, exit,
                   CONNECTION, led>>

\* The strong handles to the result cell once monitor has set up its callbacks:
\* the local `result`; the error callback captures Rc::downgrade(&result), and
\* the handle it upgrades is dropped before the callback returns.
StrongHandles == 1

\* Rc::into_inner(result).context(..)?.into_inner(): the cell's value when the
\* local is the only strong handle, the context error otherwise (its message
\* is written here without the backquotes it has around the word result).
IntoInner(rc, res) ==
    IF rc = 1 THEN res ELSE Err("leak result reference somewhere")

\* Mutant: monitor returns success whatever the result cell holds.
ReturnOk ==
    /\ pc = "run"
    /\ quit
    /\ pc' = "returned"
    /\ exit' = Some(Ok)
    /\ ev' = [kind |-> "return", after |-> ev.kind]
    /\ out' = NoCalls
    /\ UNCHANGED <<cleared, fatal, result_rc, globals, gone, nodes, camera_id,
                   result, quit, CONNECTION, led>>

\* main_loop.run() returns once quit was called; monitor hands back the result
\* cell's value.
Return ==
    /\ pc = "run"
    /\ quit
    /\ pc' = "returned"
    /\ exit' = Some(IntoInner(result_rc, result))
    /\ ev' = [kind |-> "return", after |-> ev.kind]
    /\ out' = NoCalls
    /\ UNCHANGED <<cleared, fatal, result_rc, globals, gone, nodes, camera_id, result, quit,
                   CONNECTION, led>>

(* --------------------------------------------------------- specification *)
Init ==
    /\ globals = <<>>
    /\ gone = {}
    /\ nodes = NodesNew
    /\ camera_id = None
    /\ result = Ok
    /\ quit = FALSE
    /\ pc = "run"
    /\ exit = None
    /\ CONNECTION = "uninit"
    /\ led = None
    /\ ev = [kind |-> "init"]
    /\ cleared = None
    /\ fatal = FALSE
    /\ result_rc = StrongHandles
    /\ out = NoCalls

Next ==
    \/ \E g \in GlobalIds, type \in ObjectTypes : Global(g, type)
    \/ \E p \in ProxyIds, props \in SystemProps, state \in SystemStates :
           NodeInfo(p, props, state)
    \/ \E g \in GlobalIds : GlobalRemove(g)
    \/ \E p \in ProxyIds : ProxyRemoved(p)
    \/ \E id \in ErrorIds, message \in ErrorMessages : CoreError(id, message)
    \/ \E sig \in Signals : SignalHandler(sig)
    \/ Return

\* The whole monitor: every callback, over the system inputs.
Spec == Init /\ [][Next]_vars

\* main_loop.run() tests the quit flag after every loop iteration, and an
\* iteration dispatches finitely many callbacks: once quit was called, run()
\* returns.
SpecFair == Spec /\ WF_vars(Return)

\* The node callbacks alone, over every property map and every node state,
\* for the nodes 1..MaxInfoGlobalId.
NextInfo ==
    \/ \E g \in InfoGlobalIds, type \in ObjectTypes : Global(g, type)
    \/ \E p \in ProxyIds, props \in PropsInputs, state \in NodeStates :
           NodeInfo(p, props, state)
    \/ \E g \in InfoGlobalIds : GlobalRemove(g)
    \/ \E p \in ProxyIds : ProxyRemoved(p)

SpecInfo == Init /\ [][NextInfo]_vars

(* ------------------------------------------- the Nodes operations alone *)
\* The three methods of Nodes applied to any proxy id, present or not, as a
\* caller other than the registry callback could apply them.
ListenersUnder(n, p) == Len(EntryOrDefault(n.listeners, p))

NodesFrame ==
    /\ out' = NoCalls
    /\ UNCHANGED <<cleared, fatal, result_rc, globals, gone, camera_id, result,
                   quit, pc, exit, CONNECTION, led>>

AddNodeT(p, g) ==
    /\ ListenersUnder(nodes, p) < MaxListeners
    /\ nodes' = add_node_t(nodes, NodeProxy(p, g), NodeListener(p))
    /\ ev' = [kind |-> "add_node_t", proxy_id |-> p, id |-> g]
    /\ NodesFrame

AddProxyListener(p) ==
    /\ ListenersUnder(nodes, p) < MaxListeners
    /\ nodes' = add_proxy_listener(nodes, p, ProxyListener(p))
    /\ ev' = [kind |-> "add_proxy_listener", proxy_id |-> p]
    /\ NodesFrame

Remove(p) ==
    /\ nodes' = remove(nodes, p)
    /\ ev' = [kind |-> "remove", proxy_id |-> p,
              had |-> p \in DOMAIN nodes.nodes_t /\ p \in DOMAIN nodes.listeners]
    /\ NodesFrame

NextNodes ==
    \/ \E p \in ProxyIds, g \in GlobalIds : AddNodeT(p, g)
    \/ \E p \in ProxyIds : AddProxyListener(p)
    \/ \E p \in ProxyIds : Remove(p)

SpecNodes == Init /\ [][NextNodes]_vars

(* ---------------------------------------------------------------- claims *)
\* What the claims call a match: all three fixed fields present with the fixed
\* values. Its negation: the map is absent, or some field is missing or differs.
AllThreeMatch(props) ==
    /\ props # None
    /\ \A k \in PropKeys : k \in DOMAIN props[1] /\ props[1][k] = TargetProps[k]
LacksOrMismatches(props) ==
    \/ props = None
    \/ \E k \in PropKeys : k \notin DOMAIN props[1] \/ props[1][k] # TargetProps[k]

\* The last callback was an info event that made a set-level call.
InfoWithCommand == ev.kind = "info" /\ Len(out.set) > 0

\* A node with this global id is bound and its removal has not been announced.
LiveNode(id) ==
    \E p \in DOMAIN nodes.nodes_t : nodes.nodes_t[p].id = id /\ p \notin gone

\* C1: every level passed to set_led_brightness by an info event is 1 when the
\* event's state is Running and 0 for every other state.
C1_LevelOnIffRunning ==
    InfoWithCommand =>
        \A i \in 1..Len(out.set) :
            /\ (out.set[i].level = 1) <=> (ev.state.tag = "Running")
            /\ (ev.state.tag # "Running") => (out.set[i].level = 0)

\* C1 witness: a Running event of the latched node issued level 1.
C1_Witness ==
    /\ InfoWithCommand
    /\ ev.state.tag = "Running"
    /\ out.set[1].level = 1
    /\ camera_id = Some(ev.id)

C3_MismatchKeepsLatch ==
    [][(ev'.kind = "info" /\ LacksOrMismatches(ev'.props))
          => camera_id' = camera_id]_vars

\* C3 witness: a map with exactly one wrong field arrived while unlatched, and
\* the monitor is still unlatched.
C3_Witness ==
    /\ ev.kind = "info"
    /\ ev.props # None
    /\ DOMAIN ev.props[1] = PropKeys
    /\ Cardinality({k \in PropKeys : ev.props[1][k] # TargetProps[k]}) = 1
    /\ ev.latch = None
    /\ camera_id = None

\* C4: an info event issues exactly one set-level command when its identity
\* equals the latch after identification, and otherwise no command and no
\* notification.
C4_OneCommandIffLatched ==
    ev.kind = "info" =>
        IF camera_id = Some(ev.id)
        THEN Len(out.set) = 1
        ELSE out.set = <<>> /\ out.notify = <<>>

\* C4 witness: scenario D, a rear camera reaching Running while nothing is
\* latched, with no call made.
C4_Witness ==
    /\ ev.kind = "info"
    /\ ev.props = Some(RearProps)
    /\ ev.state.tag = "Running"
    /\ ev.latch = None
    /\ camera_id = None
    /\ out = NoCalls

\* C5: the global_remove of the latched identity clears the latch, makes no
\* call and leaves the LED at its level; and while nothing is latched, the only
\* event that issues a set-level command is an info event whose properties
\* satisfy the identification predicate.
C5_RemovalClearsSilently ==
    /\ [][(ev'.kind = "global_remove" /\ camera_id = Some(ev'.id))
             => (camera_id' = None /\ out' = NoCalls /\ led' = led)]_vars
    /\ [][(camera_id = None /\ out'.set # <<>>)
             => (ev'.kind = "info" /\ AllThreeMatch(ev'.props))]_vars

\* C5 witness: the latched identity was removed while the LED was on; the
\* latch is empty and the LED is still on.
C5_Witness ==
    /\ ev.kind = "global_remove"
    /\ ev.latch = Some(ev.id)
    /\ camera_id = None
    /\ led = Some(1)
    /\ out = NoCalls

\* C6: a global_remove of an identity other than the latched one, or with
\* nothing latched, leaves the latch unchanged and makes no call.
C6_OtherRemovalIsNoOp ==
    [][(ev'.kind = "global_remove" /\ camera_id # Some(ev'.id))
          => (camera_id' = camera_id /\ out' = NoCalls)]_vars

\* C6 witness: another identity was removed while a camera was latched, and
\* the latch still holds the camera.
C6_Witness ==
    /\ ev.kind = "global_remove"
    /\ ev.latch # None
    /\ ev.latch # Some(ev.id)
    /\ camera_id = ev.latch
    /\ out = NoCalls

\* C7: once the latch is empty (the tracked object was removed), a matching
\* info event of a node latches that node and forwards the event's state as
\* one set-level command.
C7_RelatchAfterRemoval ==
    [][(camera_id = None /\ ev'.kind = "info" /\ AllThreeMatch(ev'.props))
          => (/\ camera_id' = Some(ev'.id)
              /\ Len(out'.set) = 1
              /\ out'.set[1].level = (IF ev'.state.tag = "Running" THEN 1 ELSE 0))]_vars

\* C7 witness: the latch was cleared by the removal of one identity, and a
\* node with a different identity has latched and had its state forwarded.
C7_Witness ==
    /\ ev.kind = "info"
    /\ ev.latch = None
    /\ cleared # None
    /\ cleared # Some(ev.id)
    /\ camera_id = Some(ev.id)
    /\ Len(out.set) = 1

\* The text format!("{:?}", state) yields for each node state of the model.
StateText(state) ==
    CASE state.tag = "Creating" -> "Creating"
      [] state.tag = "Suspended" -> "Suspended"
      [] state.tag = "Idle" -> "Idle"
      [] state.tag = "Running" -> "Running"
      [] state.tag = "Error" /\ state.err = "boom" -> "Error(\"boom\")"

\* C8: a reconcile whose set-level call fails attempts exactly one
\* notification, with summary "Camera state changed" and the event's state as
\* text for body, whether or not that notification succeeds; a reconcile whose
\* set-level call succeeds attempts none.
C8_NotifyIffSetFails ==
    InfoWithCommand =>
        IF out.set[1].ok
        THEN out.notify = <<>>
        ELSE /\ Len(out.notify) = 1
             /\ out.notify[1].summary = "Camera state changed"
             /\ out.notify[1].body = StateText(ev.state)

\* C8 witness: scenario C with a failing notifier: the set-level call for
\* Running failed, one notification with body "Running" was attempted, and it
\* failed too.
C8_Witness ==
    /\ InfoWithCommand
    /\ ev.state.tag = "Running"
    /\ ~out.set[1].ok
    /\ Len(out.notify) = 1
    /\ out.notify[1].body = "Running"
    /\ ~out.notify[1].ok

\* C9: an info event whose set-level call fails leaves the quit flag, the
\* result, the loop position and the listener map as they were, and leaves the
\* latch where the identification step alone puts it.
C9_FailureDoesNotStop ==
    [][(ev'.kind = "info" /\ out'.set # <<>> /\ ~out'.set[1].ok)
          => (/\ quit' = quit
              /\ result' = result
              /\ pc' = pc
              /\ nodes' = nodes
              /\ camera_id' = Some(ev'.id)
              /\ (LacksOrMismatches(ev'.props) => camera_id' = camera_id))]_vars

\* C9 witness: the set-level call and the notification both failed, the loop
\* runs on with a success result, and the camera is still latched with its
\* listener in place.
C9_Witness ==
    /\ InfoWithCommand
    /\ ~out.set[1].ok
    /\ ~out.notify[1].ok
    /\ ~quit
    /\ pc = "run"
    /\ result = Ok
    /\ camera_id = Some(ev.id)
    /\ HasListener(nodes, ev.proxy_id, "NodeListener")

\* C10: a core error with id 0 calls quit and stores an error carrying the
\* message; a core error with another id changes neither the quit flag, the
\* result, the latch nor the listener map.
C10_OnlyIdZeroIsFatal ==
    [][(ev'.kind = "error")
          => IF ev'.id = 0
             THEN /\ quit'
                  /\ ~result'.ok
                  /\ result'.msg = "pipewire error: " \o ev'.message
             ELSE /\ quit' = quit
                  /\ result' = result
                  /\ camera_id' = camera_id
                  /\ nodes' = nodes]_vars

\* C10 witness: a core error with id 0 arrived; quit was called and the result
\* is the error with its message.
C10_Witness ==
    /\ ev.kind = "error"
    /\ ev.id = 0
    /\ quit
    /\ result = Err("pipewire error: connection lost")

\* C11: each of SIGINT and SIGTERM is followed by the loop stopping and monitor
\* returning; and monitor's return value is success exactly when no core error
\* with id 0 was delivered, also when the error came before a signal.
C11_SignalStopsAndResultIsKept ==
    /\ \A sig \in Signals :
           (ev.kind = "signal" /\ ev.sig = sig) ~> (pc = "returned")
    /\ [](pc = "returned" => (exit # None /\ (exit[1] = Ok <=> ~fatal)))

\* C11 witness: a shutdown signal arrived after a fatal core error, it was the
\* last callback before the loop stopped, and monitor has returned the recorded
\* error.
C11_Witness ==
    /\ pc = "returned"
    /\ ev.after = "signal"
    /\ fatal
    /\ exit = Some(Err("pipewire error: connection lost"))

\* The proxies the tracking map n holds for the registry object id.
TrackedFor(n, id) ==
    {p \in DOMAIN n.nodes_t \cup DOMAIN n.listeners :
        p \in DOMAIN n.nodes_t /\ n.nodes_t[p].id = id}

\* C12 (as stated): once global_remove(id) was processed the tracking map
\* holds no object reference and no listener for id, and no info callback runs
\* for an object whose global_remove was processed.
C12_GlobalRemoveReleases ==
    /\ [][ev'.kind = "global_remove" => TrackedFor(nodes', ev'.id) = {}]_vars
    /\ [][ev'.kind = "info" => ev'.proxy_id \notin gone]_vars

\* The insertion of an object under a proxy id the tracking map already has.
InsertOfPresent ==
    /\ ev'.kind = "add_node_t"
    /\ ev'.proxy_id \in DOMAIN nodes.nodes_t

\* C13 (as stated): an insertion under an identity that is already present is
\* rejected, the object reference and the listener list stored under it are
\* neither replaced nor extended.
C13_DoubleInsertRejected ==
    [][InsertOfPresent =>
          /\ nodes'.nodes_t = nodes.nodes_t
          /\ nodes'.listeners = nodes.listeners]_vars

\* The maps m1 and m2 agree on the key q.
SameUnder(m1, m2, q) ==
    /\ q \in DOMAIN m1 <=> q \in DOMAIN m2
    /\ q \in DOMAIN m1 => m1[q] = m2[q]

\* The proxy ids the tracking map n has nothing stored under.
AbsentIds(n) == ProxyIds \ (DOMAIN n.nodes_t \cup DOMAIN n.listeners)

\* C14: after remove(p) neither an object reference nor a listener is stored
\* under p and every other identity's entries are as before; when nothing was
\* stored under p the map is unchanged; and inserting an absent identity (as
\* the registry callback does) and removing it again gives back the map.
C14_RemoveFrame ==
    /\ [][ev'.kind = "remove" =>
             LET p == ev'.proxy_id
             IN  /\ p \notin DOMAIN nodes'.nodes_t
                 /\ p \notin DOMAIN nodes'.listeners
                 /\ \A q \in ProxyIds \ {p} :
                        /\ SameUnder(nodes'.nodes_t, nodes.nodes_t, q)
                        /\ SameUnder(nodes'.listeners, nodes.listeners, q)
                 /\ p \in AbsentIds(nodes) => nodes' = nodes]_vars
    /\ [](\A p \in AbsentIds(nodes), g \in GlobalIds :
             remove(OnGlobal(nodes, "Node", p, g), p) = nodes)

\* C14 witness: a remove of an identity that had an object reference and
\* listeners, while another identity keeps its object and both its listeners.
C14_Witness ==
    /\ ev.kind = "remove"
    /\ ev.had
    /\ ev.proxy_id \in AbsentIds(nodes)
    /\ \E q \in DOMAIN nodes.nodes_t :
           /\ HasListener(nodes, q, "NodeListener")
           /\ HasListener(nodes, q, "ProxyListener")

\* C15: the global callback of an object whose type is not Node changes
\* neither the tracking map (no object, no listener is stored), nor the latch,
\* nor the result, nor the quit flag, nor the indicator, and makes no call.
C15_NonNodeIsIgnored ==
    [][(ev'.kind = "global" /\ ev'.type # "Node") =>
          /\ nodes' = nodes
          /\ camera_id' = camera_id
          /\ result' = result
          /\ quit' = quit
          /\ led' = led
          /\ CONNECTION' = CONNECTION
          /\ out' = NoCalls]_vars

\* C15 witness: a Device appeared while a node is tracked and latched and the
\* indicator has been set.
C15_Witness ==
    /\ ev.kind = "global"
    /\ ev.type = "Device"
    /\ camera_id # None
    /\ LiveNode(camera_id[1])
    /\ led # None

\* C16: in every reachable state the tracking map has listeners under exactly
\* the proxy ids it has an object reference under, and each such entry holds
\* the info (state-change) listener and the removed listener of that proxy.
C16_ListenersIffObject ==
    /\ DOMAIN nodes.listeners = DOMAIN nodes.nodes_t
    /\ \A p \in DOMAIN nodes.nodes_t :
           /\ nodes.nodes_t[p].proxy_id = p
           /\ HasListener(nodes, p, "NodeListener")
           /\ HasListener(nodes, p, "ProxyListener")

\* C16 witness: a node was just bound while the proxy of a node already removed
\* from the registry is still tracked.
C16_Witness ==
    /\ Cardinality(DOMAIN nodes.nodes_t) = 2
    /\ gone # {}
    /\ ev.kind = "global"
    /\ ev.type = "Node"

\* C17: Connection::system runs at most once, only while the cell is empty,
\* and what it yields stays cached; once the cached outcome is the error, every
\* later set_led_brightness fails without running Connection::system again,
\* and the info event that made the call posts the notification instead.
C17_ConnectOnceAndCacheFailure ==
    /\ [][CONNECTION # "uninit" => CONNECTION' = CONNECTION]_vars
    /\ [][out'.set # <<>> =>
             /\ out'.set[1].connect <=> CONNECTION = "uninit"
             /\ CONNECTION' # "uninit"]_vars
    /\ [][(CONNECTION = "err" /\ out'.set # <<>>) =>
             /\ ~out'.set[1].ok
             /\ ~out'.set[1].connect
             /\ Len(out'.notify) = 1]_vars

\* C17 witness: with the failed connection already cached, an info event of
\* the latched node made a set_led_brightness call that failed without a
\* connection attempt and posted the notification.
C17_Witness ==
    /\ ev.kind = "info"
    /\ CONNECTION = "err"
    /\ Len(out.set) = 1
    /\ ~out.set[1].connect
    /\ ~out.set[1].ok
    /\ Len(out.notify) = 1

\* The registry currently lists id as a node: its global event was processed
\* and its global_remove was not.
InRegistry(id) == id \in DOMAIN globals /\ globals[id] = "Node"

\* C18 (as stated): whenever the latch is set, the latched id is a node the
\* registry currently lists, also after an info event delivered between a
\* node's global_remove and the removed event of its proxy.
C18_LatchIsLive == camera_id # None => InRegistry(camera_id[1])

\* What monitor may return without the context error of Rc::into_inner.
CleanExits == {Ok} \cup {Err("pipewire error: " \o m) : m \in ErrorMessages}

\* C19: the local `result` is the only strong handle to the result cell in
\* every reachable state, so when the loop has stopped monitor returns success
\* or the recorded pipewire error, never the error of a leaked reference.
C19_NoLeakError ==
    /\ result_rc = 1
    /\ pc = "returned" =>
           /\ exit # None
           /\ exit[1] \in CleanExits
           /\ exit[1] = result

\* C19 witness: the loop stopped right after a fatal core error, whose callback
\* upgraded the weak handle, and monitor returned the recorded error.
C19_Witness ==
    /\ pc = "returned"
    /\ ev.after = "error"
    /\ fatal
    /\ exit = Some(Err("pipewire error: connection lost"))

====
